---- MODULE Spec2Model ----
(***************************************************************************)
(* Log-to-report synthesis of the Shiny dashboard QA tool.                 *)
(*                                                                         *)
(* A log text is a sequence of tokens.  A token is a marker literal of the *)
(* log vocabulary ("Running scenario:", "Scenario", "failed", ...), one    *)
(* character of a scenario name or detail, a line break, or a block of     *)
(* filler text.  Width gives the number of characters a token stands for,  *)
(* so that String.length, split, includes, trim and the regular            *)
(* expressions of the source are computed on the text itself.              *)
(*                                                                         *)
(* Two prepareScenarioResults implementations are modelled:                *)
(*   "lines"     - the line-by-line parser of the report generator         *)
(*   "reconcile" - the reconciling parser of the report integration        *)
(***************************************************************************)
EXTENDS Integers, Sequences, FiniteSets, TLC

(***************************************************************************)
(* Tokens                                                                  *)
(***************************************************************************)
NL == "\n"
SP == " "
QUOTE == "\""
FILLER == "<filler>"

\* Number of characters a token stands for.  FILLER is a run of text that
\* holds no marker, no quote and no line break.
Width(t) ==
  CASE t = "Running scenario:" -> 17
    [] t = "Scenario" -> 8
    [] t = "completed successfully" -> 22
    [] t = "failed" -> 6
    [] t = "Warning:" -> 8
    [] t = "Total scenarios:" -> 16
    [] t = "Error" -> 5
    [] t = "Initial load time:" -> 18
    [] t = "Average response time:" -> 22
    [] t = "ms" -> 2
    [] t = "RUNNING SCENARIO:" -> 17
    [] t = "SCENARIO" -> 8
    [] t = "COMPLETED SUCCESSFULLY" -> 22
    [] t = "FAILED" -> 6
    [] t = FILLER -> 300
    [] OTHER -> 1

RECURSIVE Length(_)
\* String.prototype.length of a text
Length(s) == IF s = <<>> THEN 0 ELSE Width(Head(s)) + Length(Tail(s))

\* Case folding used by the regular expressions compiled with the i flag
Fold(t) ==
  CASE t = "Running scenario:" -> "running scenario:"
    [] t = "Scenario" -> "scenario"
    [] t = "Error" -> "error"
    [] t = "Warning:" -> "warning:"
    [] t = "RUNNING SCENARIO:" -> "running scenario:"
    [] t = "SCENARIO" -> "scenario"
    [] t = "COMPLETED SUCCESSFULLY" -> "completed successfully"
    [] t = "FAILED" -> "failed"
    [] t = "A" -> "a"
    [] t = "B" -> "b"
    [] OTHER -> t

Digits == {"0", "1", "2", "3", "4", "5", "6", "7", "8", "9"}

DigitVal(t) ==
  CASE t = "0" -> 0 [] t = "1" -> 1 [] t = "2" -> 2 [] t = "3" -> 3
    [] t = "4" -> 4 [] t = "5" -> 5 [] t = "6" -> 6 [] t = "7" -> 7
    [] t = "8" -> 8 [] t = "9" -> 9

RECURSIVE ParseIntFrom(_, _)
ParseIntFrom(ds, acc) ==
  IF ds = <<>> THEN acc ELSE ParseIntFrom(Tail(ds), acc * 10 + DigitVal(Head(ds)))

\* parseInt of a captured (\d+)
ParseInt(ds) == ParseIntFrom(ds, 0)

\* Characters that are special in a regular expression source.  A name
\* holding an unbalanced "(" makes new RegExp(...) throw a SyntaxError.
RegExpThrows(src) == \E k \in 1..Len(src) : src[k] = "("

(***************************************************************************)
(* String primitives                                                       *)
(***************************************************************************)
Min(S) == CHOOSE x \in S : \A y \in S : x <= y
Max(S) == CHOOSE x \in S : \A y \in S : x >= y

\* the literal lit occurs in s at position p
At(s, p, lit) ==
  /\ p >= 1
  /\ p + Len(lit) - 1 <= Len(s)
  /\ \A k \in 1..Len(lit) : s[p + k - 1] = lit[k]

\* the same under the i flag
AtI(s, p, lit) ==
  /\ p >= 1
  /\ p + Len(lit) - 1 <= Len(s)
  /\ \A k \in 1..Len(lit) : Fold(s[p + k - 1]) = Fold(lit[k])

\* String.prototype.includes
Includes(s, lit) == \E p \in 1..(Len(s) + 1) : At(s, p, lit)

\* String.prototype.indexOf(lit, from), 1-based; 0 when there is none
IndexOf(s, lit, from) ==
  LET ps == {p \in from..(Len(s) + 1) : At(s, p, lit)}
  IN IF ps = {} THEN 0 ELSE Min(ps)

IsSpace(t) == t = SP \/ t = NL

\* String.prototype.trim
Trim(s) ==
  LET ks == {k \in 1..Len(s) : ~IsSpace(s[k])}
  IN IF ks = {} THEN <<>> ELSE SubSeq(s, Min(ks), Max(ks))

\* position of the next line break at or after p, Len(s)+1 when there is none
LineEnd(s, p) ==
  LET ps == {k \in p..Len(s) : s[k] = NL}
  IN IF ps = {} THEN Len(s) + 1 ELSE Min(ps)

RECURSIVE Split(_)
\* String.prototype.split('\n')
Split(s) ==
  LET e == LineEnd(s, 1)
  IN IF e > Len(s) THEN <<s>>
     ELSE <<SubSeq(s, 1, e - 1)>> \o Split(SubSeq(s, e + 1, Len(s)))

(***************************************************************************)
(* Regular expressions.  A match is [found, index, end, g1]: index is the  *)
(* position of the match, end the position after it, g1 capture group 1.   *)
(***************************************************************************)
NoMatch == [found |-> FALSE, index |-> 0, end |-> 0, g1 |-> <<>>]

\* First match at or after from of a pattern "LIT(.*)" (i flag)
ExecRest(s, lit, from) ==
  LET ps == {p \in from..Len(s) : AtI(s, p, lit)}
  IN IF ps = {} THEN NoMatch
     ELSE LET p == Min(ps)
              c == p + Len(lit)
              e == LineEnd(s, c)
          IN [found |-> TRUE, index |-> p, end |-> e, g1 |-> SubSeq(s, c, e - 1)]

\* /Running scenario: (.*)/i
scenarioStartLit == <<"Running scenario:", SP>>
\* /Warning: (.*)/i
warningLit == <<"Warning:", SP>>
scenarioLit == <<"Scenario", SP>>
completedLit == <<SP, "completed successfully">>
failedLit == <<SP, "failed">>

\* Ends e of a capture ([^"]*) that starts at c and is followed by "?TAIL
QuoteRunEnds(s, c, tail) ==
  LET qs == {k \in c..Len(s) : s[k] = QUOTE}
      run == IF qs = {} THEN Len(s) + 1 ELSE Min(qs)
  IN {e \in c..run : \/ (e <= Len(s) /\ s[e] = QUOTE /\ AtI(s, e + 1, tail))
                     \/ AtI(s, e, tail)}

\* The match of /Scenario "?([^"]*)"? TAIL/i that starts at p, the quantifiers
\* greedy: the opening quote is taken when a match follows, the capture is the
\* longest one, the closing quote is taken when it is there.
ScenarioMatchAt(s, p, tail) ==
  IF ~AtI(s, p, scenarioLit) THEN NoMatch
  ELSE LET a == p + Len(scenarioLit)
           withQ == IF a <= Len(s) /\ s[a] = QUOTE THEN QuoteRunEnds(s, a + 1, tail) ELSE {}
           noQ == QuoteRunEnds(s, a, tail)
           c == IF withQ # {} THEN a + 1 ELSE a
           es == IF withQ # {} THEN withQ ELSE noQ
       IN IF es = {} THEN NoMatch
          ELSE LET e == Max(es)
                   q == IF e <= Len(s) /\ s[e] = QUOTE /\ AtI(s, e + 1, tail) THEN 1 ELSE 0
               IN [found |-> TRUE, index |-> p, end |-> e + q + Len(tail),
                   g1 |-> SubSeq(s, c, e - 1)]

\* First match of /Scenario "?([^"]*)"? TAIL/i at or after from
ExecScenario(s, tail, from) ==
  LET ps == {p \in from..Len(s) : ScenarioMatchAt(s, p, tail).found}
  IN IF ps = {} THEN NoMatch ELSE ScenarioMatchAt(s, Min(ps), tail)

\* /(.*) completed successfully/i on one line: the capture is greedy, so it
\* runs from the start of the line to the last " completed successfully"
ExecSimpleComplete(line) ==
  LET ps == {p \in 1..Len(line) : AtI(line, p, completedLit)}
  IN IF ps = {} THEN NoMatch
     ELSE [found |-> TRUE, index |-> 1, end |-> Max(ps) + Len(completedLit),
           g1 |-> SubSeq(line, 1, Max(ps) - 1)]

totalLit == <<"Total scenarios:", SP>>

\* /Total scenarios: (\d+)/
ExecTotal(s) ==
  LET ps == {p \in 1..Len(s) : At(s, p, totalLit) /\ p + Len(totalLit) <= Len(s)
                                /\ s[p + Len(totalLit)] \in Digits}
  IN IF ps = {} THEN NoMatch
     ELSE LET p == Min(ps)
              c == p + Len(totalLit)
              nd == {k \in c..Len(s) : s[k] \notin Digits}
              e == IF nd = {} THEN Len(s) + 1 ELSE Min(nd)
          IN [found |-> TRUE, index |-> p, end |-> e, g1 |-> SubSeq(s, c, e - 1)]

RECURSIVE StartMatchAll(_, _)
\* testLog.matchAll(/Running scenario: (.*)/gi): the captures, in text order
StartMatchAll(s, from) ==
  LET m == ExecRest(s, scenarioStartLit, from)
  IN IF ~m.found THEN <<>> ELSE <<m.g1>> \o StartMatchAll(s, m.end)

RECURSIVE CompleteMatchAll(_, _)
\* testLog.matchAll(/Scenario "?([^"]*)"? completed successfully/gi)
CompleteMatchAll(s, from) ==
  LET m == ExecScenario(s, completedLit, from)
  IN IF ~m.found THEN <<>> ELSE <<m.g1>> \o CompleteMatchAll(s, m.end)

(***************************************************************************)
(* Log vocabulary: the lines the test runner and runShinyDashboardTest     *)
(* write, over a small set of scenario names.                              *)
(***************************************************************************)
MaxLines == 3

\* declared totals written by "Total scenarios: N" lines: none expected, fewer
\* than the pool, more than the pool
Totals == {0, 2, 5}

\* "a" is a substring of "ab"; "(" is special in a regular expression
Names == {<<"a">>, <<"a", "b">>, <<"(">>}

\* console.log("Running scenario: NAME") of the test runner
StartLine(n) == <<"Running scenario:", SP>> \o n
\* log(`Scenario "${scenario.name}" completed successfully`)
CompletedLine(n) == <<"Scenario", SP, QUOTE>> \o n \o <<QUOTE, SP, "completed successfully">>
\* log(`Scenario "${scenario.name}" failed: ${scenario.error}`)
FailedLine(n, d) == <<"Scenario", SP, QUOTE>> \o n \o <<QUOTE, SP, "failed", ":", SP>> \o d
WarningLine(d) == <<"Warning:", SP>> \o d
ErrorLine(d) == <<"Error", ":", SP>> \o d

RECURSIVE DigitsOf(_)
\* decimal rendering of a natural number
DigitsOf(n) ==
  LET d == CHOOSE t \in Digits : DigitVal(t) = n % 10
  IN IF n < 10 THEN <<d>> ELSE DigitsOf(n \div 10) \o <<d>>

\* log(`Total scenarios: ${testResults.scenarios.length}`)
TotalLine(n) == <<"Total scenarios:", SP>> \o DigitsOf(n)
\* the lines processTestLog reads the metrics from
LoadTimeLine(n) == <<"Initial load time:", SP>> \o DigitsOf(n) \o <<"ms">>
ResponseTimeLine(n) == <<"Average response time:", SP>> \o DigitsOf(n) \o <<"ms">>

ScenarioLines ==
  {StartLine(n) : n \in Names} \cup {CompletedLine(n) : n \in Names}
    \cup {FailedLine(n, <<"d">>) : n \in Names}

\* lines the line-by-line parser reacts to
LinesForms == ScenarioLines \cup {WarningLine(<<"w">>)}
\* lines the reconciling parser and the error scan react to
ReconcileForms == ScenarioLines \cup {TotalLine(n) : n \in Totals} \cup {ErrorLine(<<"e">>)}

RECURSIVE Join(_)
\* lines joined by line breaks
Join(ls) ==
  IF ls = <<>> THEN <<>>
  ELSE IF Len(ls) = 1 THEN ls[1] ELSE ls[1] \o <<NL>> \o Join(Tail(ls))

SeqsUpTo(S, n) == UNION {[1..k -> S] : k \in 0..n}

\* the log texts: up to n lines, optionally followed by a line of filler
LogsOf(forms, n) ==
  {Join(ls) : ls \in SeqsUpTo(forms, n)}
    \cup {Join(ls \o <<(<<FILLER>>)>>) : ls \in SeqsUpTo(forms, n)}

\* an absent log text (undefined or null)
Undefined == <<"<undefined>">>

(***************************************************************************)
(* Scenario results and the canonical default sets                         *)
(***************************************************************************)
\* A ScenarioResult.  endTime says whether the field is set; duration and
\* error are <<>> when the field is absent and <<value>> when it is set.
Scenario(id, name, status, closed) ==
  [id |-> id, name |-> name, status |-> status, startTime |-> TRUE,
   endTime |-> closed, duration |-> IF closed THEN <<5000>> ELSE <<>>,
   warnings |-> <<>>, error |-> <<>>]

helpersPool == << <<"Tab Navigation">>, <<"Dashboard Controls">>, <<"Responsiveness Test">> >>
\* the pool of the report integration, last name first
integrationPoolReversed ==
  << <<"Test Dashboard Responsiveness">>, <<"Test Dashboard Plot Interactions">>,
     <<"Test Dashboard Input Controls">>, <<"Navigate Dashboard Tabs">> >>

integrationPool == << <<"Navigate Dashboard Tabs">>, <<"Test Dashboard Input Controls">>,
                      <<"Test Dashboard Plot Interactions">>, <<"Test Dashboard Responsiveness">> >>

\* createDefaultScenarios of the helpers module, used by the line-by-line parser
createDefaultScenarios == [i \in 1..Len(helpersPool) |-> Scenario(i, helpersPool[i], "passed", TRUE)]

\* the names of the fallback createDefaultScenarios of the report generator
fallbackPool == << <<"Tab Navigation">>, <<"Dashboard Controls">>, <<"Responsiveness Test">> >>

\* createDefaultScenarios of the report generator, in case the helpers
\* module cannot be imported
createDefaultScenariosFallback ==
  [i \in 1..Len(fallbackPool) |-> Scenario(i, fallbackPool[i], "passed", TRUE)]

\* createDefaultScenarios of the report integration, used by the reconciling parser
createDefaultScenariosIntegration ==
  [i \in 1..Len(integrationPool) |-> Scenario(i, integrationPool[i], "passed", TRUE)]

(***************************************************************************)
(* State                                                                   *)
(***************************************************************************)
VARIABLES
  impl,               \* which prepareScenarioResults runs: "lines" or "reconcile"
  testLog,            \* the log text handed to prepareScenarioResults
  pc,                 \* position of the run
  lines,              \* testLog.split('\n') of the line-by-line parser
  lineIdx,            \* index of the line the for loop is at
  currentScenario,    \* <<>> (null) or <<the open scenario>>
  scenarios,          \* the scenarios array being built
  scenarioIdCounter,  \* the id counter local to one call
  scenarioNames,      \* the Set of names of the reconciling parser, in insertion order
  nameIdx,            \* index of the name the for loop is at
  outcome,            \* "none", "returned" or "threw"
  returned,           \* the list prepareScenarioResults returned
  addIdx,             \* index of the scenario forEach(addScenario) is at
  testResults,        \* TestReportGenerator.testResults: summary, scenarios, metrics
  lastIndex,          \* errorRegex.lastIndex of the error scan, 1-based
  calls,              \* the finished prepareScenarioResults calls: [log, outcome, list]
  variant,            \* which runShinyDashboardTest runs, "none" when none does
  rpc,                \* position of runShinyDashboardTest
  runnerResults,      \* <<>> or <<what testRunner.runShinyTests() resolved to>>
  recIdx,             \* index of the record testResults.scenarios.forEach is at
  logStream,          \* the write stream: writable, end() calls, callback fired, late writes
  logFile             \* the log file: its text, and the reads made of it

runVars == <<variant, rpc, runnerResults, recIdx, logStream, logFile>>

vars == <<impl, testLog, pc, lines, lineIdx, currentScenario, scenarios, scenarioIdCounter,
          scenarioNames, nameIdx, outcome, returned, addIdx, testResults, lastIndex, calls,
          variant, rpc, runnerResults, recIdx, logStream, logFile>>

parserVars == <<lines, lineIdx, currentScenario, scenarios, scenarioIdCounter,
                scenarioNames, nameIdx>>

\* successRate is kept as the exact fraction num/den
Rate(num, den) == [num |-> num, den |-> den]

\* a constructor that computes the rate of the empty report: 0 / 0 * 100
NewTestResultsComputed ==
  [scenarios |-> <<>>,
   summary |-> [total |-> 0, passed |-> 0, failed |-> 0, warning |-> 0, successRate |-> Rate(0, 0)],
   metrics |-> [loadTime |-> 0, interactionTime |-> 0, averageResponseTime |-> 0, errors |-> <<>>]]

\* TestReportGenerator constructor
NewTestResults ==
  [scenarios |-> <<>>,
   summary |-> [total |-> 0, passed |-> 0, failed |-> 0, warning |-> 0, successRate |-> Rate(0, 1)],
   metrics |-> [loadTime |-> 0, interactionTime |-> 0, averageResponseTime |-> 0, errors |-> <<>>]]

\* fs.createWriteStream(logFile, { flags: 'a' })
NewLogStream == [writable |-> TRUE, endCalls |-> 0, closed |-> FALSE, lateWrites |-> 0]

\* the log file of a run, before anything is written or read
NewLogFile == [content |-> <<>>, reads |-> 0, earlyReads |-> 0]

\* no runShinyDashboardTest is running
RunIdle ==
  /\ variant = "none"
  /\ rpc = "idle"
  /\ runnerResults = <<>>
  /\ recIdx = 1
  /\ logStream = NewLogStream
  /\ logFile = NewLogFile

InitWith(im, logs) ==
  /\ RunIdle
  /\ impl = im
  /\ testLog \in logs
  /\ pc = "call"
  /\ lines = <<>>
  /\ lineIdx = 1
  /\ currentScenario = <<>>
  /\ scenarios = <<>>
  /\ scenarioIdCounter = 1
  /\ scenarioNames = <<>>
  /\ nameIdx = 1
  /\ outcome = "none"
  /\ returned = <<>>
  /\ addIdx = 1
  /\ testResults = NewTestResults
  /\ lastIndex = 1
  /\ calls = <<>>

Init ==
  \/ InitWith("lines", LogsOf(LinesForms, MaxLines) \cup {Undefined})
  \/ InitWith("reconcile", LogsOf(ReconcileForms, MaxLines) \cup {Undefined})

\* prepareScenarioResults returns list
Return(list) ==
  /\ returned' = list
  /\ outcome' = "returned"
  /\ pc' = "add"
  /\ calls' = Append(calls, [log |-> testLog, outcome |-> "returned", list |-> list])

\* prepareScenarioResults throws
Throw ==
  /\ outcome' = "threw"
  /\ pc' = "done"
  /\ calls' = Append(calls, [log |-> testLog, outcome |-> "threw", list |-> <<>>])
  /\ UNCHANGED returned

(***************************************************************************)
(* The line-by-line prepareScenarioResults                                 *)
(***************************************************************************)
\* the id counter carried over from the previous call
scenarioIdCarried == scenarioIdCounter

\* let scenarioIdCounter = 1
scenarioIdStart == 1

\* !testLog
Falsy(log) == log = Undefined \/ log = <<>>

\* the threshold a digit short
TooShortAt30(log) == Length(log) < 30

\* testLog.length < 300
TooShort(log) == Length(log) < 300

\* Entry: the guards before the loop
LinesEnter ==
  /\ pc = "call"
  /\ impl = "lines"
  /\ scenarios' = <<>>
  /\ currentScenario' = <<>>
  /\ scenarioIdCounter' = scenarioIdStart
  /\ IF Falsy(testLog) THEN Return(createDefaultScenarios) /\ UNCHANGED lines
     ELSE IF TooShort(testLog) THEN Return(createDefaultScenarios) /\ UNCHANGED lines
     ELSE IF StartMatchAll(testLog, 1) = <<>> THEN Return(createDefaultScenarios) /\ UNCHANGED lines
     ELSE /\ lines' = Split(testLog)
          /\ pc' = "loop"
          /\ UNCHANGED <<returned, outcome, calls>>
  /\ lineIdx' = 1
  /\ UNCHANGED <<runVars, impl, testLog, scenarioNames, nameIdx, addIdx, testResults, lastIndex>>

\* a correlation that asks for the very name of the open scenario
CorrelatesExact(m, line, cur) == Trim(m.g1) = cur.name

\* the loose correlation of a completion or failure line with the open scenario
Correlates(m, line, cur) ==
  \/ Includes(Trim(m.g1), cur.name)
  \/ Includes(cur.name, Trim(m.g1))
  \/ Includes(line, cur.name)

\* a completion that stamps the end but leaves the status
LineEffectNoStatus(line, cur) ==
  LET m1 == ExecScenario(line, completedLit, 1)
      completeMatch == IF m1.found THEN m1 ELSE ExecSimpleComplete(line)
      failedMatch == ExecScenario(line, failedLit, 1)
      warningMatch == ExecRest(line, warningLit, 1)
  IN IF completeMatch.found /\ Correlates(completeMatch, line, cur)
     THEN [cur EXCEPT !.endTime = TRUE, !.duration = <<5000>>]
     ELSE IF failedMatch.found /\ Correlates(failedMatch, line, cur)
     THEN [cur EXCEPT !.status = "failed", !.error = << <<"Scenario failed">> >>,
                      !.endTime = TRUE, !.duration = <<5000>>]
     ELSE IF warningMatch.found
     THEN [cur EXCEPT !.warnings = Append(@, warningMatch.g1),
                      !.status = IF @ = "running" THEN "warning" ELSE @]
     ELSE cur

\* The open scenario after one line that is not a start line
LineEffect(line, cur) ==
  LET m1 == ExecScenario(line, completedLit, 1)
      completeMatch == IF m1.found THEN m1 ELSE ExecSimpleComplete(line)
      failedMatch == ExecScenario(line, failedLit, 1)
      warningMatch == ExecRest(line, warningLit, 1)
  IN IF completeMatch.found /\ Correlates(completeMatch, line, cur)
     THEN [cur EXCEPT !.status = "passed", !.endTime = TRUE, !.duration = <<5000>>]
     ELSE IF failedMatch.found /\ Correlates(failedMatch, line, cur)
     THEN [cur EXCEPT !.status = "failed", !.error = << <<"Scenario failed">> >>,
                      !.endTime = TRUE, !.duration = <<5000>>]
     ELSE IF warningMatch.found
     THEN [cur EXCEPT !.warnings = Append(@, warningMatch.g1),
                      !.status = IF @ = "running" THEN "warning" ELSE @]
     ELSE cur

\* the scenario pushed when a start line finds a scenario open
PushedAtStart(cur) == cur

\* an iteration whose completion, failure and warning lines also reach the
\* entry appended last
LinesLineShared ==
  /\ pc = "loop"
  /\ lineIdx <= Len(lines)
  /\ LET line == lines[lineIdx]
         startMatch == ExecRest(line, scenarioStartLit, 1)
     IN IF startMatch.found
        THEN /\ scenarios' = IF currentScenario # <<>>
                             THEN Append(scenarios, PushedAtStart(currentScenario[1]))
                             ELSE scenarios
             /\ currentScenario' = <<Scenario(scenarioIdCounter, Trim(startMatch.g1), "running", FALSE)>>
             /\ scenarioIdCounter' = scenarioIdCounter + 1
        ELSE /\ currentScenario' = IF currentScenario = <<>> THEN <<>>
                                   ELSE <<LineEffect(line, currentScenario[1])>>
             /\ scenarios' = IF scenarios = <<>> THEN scenarios
                             ELSE [scenarios EXCEPT ![Len(scenarios)] = LineEffect(line, @)]
             /\ UNCHANGED scenarioIdCounter
  /\ lineIdx' = lineIdx + 1
  /\ UNCHANGED <<runVars, impl, testLog, pc, lines, scenarioNames, nameIdx, outcome, returned, addIdx,
                 testResults, lastIndex, calls>>

\* One iteration of for (const line of lines)
LinesLine ==
  /\ pc = "loop"
  /\ lineIdx <= Len(lines)
  /\ LET line == lines[lineIdx]
         startMatch == ExecRest(line, scenarioStartLit, 1)
     IN IF startMatch.found
        THEN /\ scenarios' = IF currentScenario # <<>>
                             THEN Append(scenarios, PushedAtStart(currentScenario[1]))
                             ELSE scenarios
             /\ currentScenario' = <<Scenario(scenarioIdCounter, Trim(startMatch.g1), "running", FALSE)>>
             /\ scenarioIdCounter' = scenarioIdCounter + 1
        ELSE /\ currentScenario' = IF currentScenario = <<>> THEN <<>>
                                   ELSE <<LineEffect(line, currentScenario[1])>>
             /\ UNCHANGED <<scenarios, scenarioIdCounter>>
  /\ lineIdx' = lineIdx + 1
  /\ UNCHANGED <<runVars, impl, testLog, pc, lines, scenarioNames, nameIdx, outcome, returned, addIdx,
                 testResults, lastIndex, calls>>

\* an end of log that resolves every open scenario to passed
ClosedAtEndAlways(cur) ==
  [cur EXCEPT !.status = "passed", !.endTime = TRUE, !.duration = <<5000>>]

\* the last scenario as it is pushed at the end of the log
ClosedAtEnd(cur) ==
  IF cur.status = "running"
  THEN [cur EXCEPT !.status = "passed", !.endTime = TRUE, !.duration = <<5000>>]
  ELSE cur

\* After the loop: close the last scenario and return
LinesFinish ==
  /\ pc = "loop"
  /\ lineIdx > Len(lines)
  /\ LET all == IF currentScenario # <<>>
                THEN Append(scenarios, ClosedAtEnd(currentScenario[1]))
                ELSE scenarios
     IN /\ scenarios' = all
        /\ Return(IF all = <<>> THEN createDefaultScenarios ELSE all)
  /\ currentScenario' = IF currentScenario # <<>> THEN <<ClosedAtEnd(currentScenario[1])>> ELSE <<>>
  /\ UNCHANGED <<runVars, impl, testLog, lines, lineIdx, scenarioIdCounter,
                 scenarioNames, nameIdx, addIdx, testResults, lastIndex>>

(***************************************************************************)
(* The reconciling prepareScenarioResults                                  *)
(***************************************************************************)
RECURSIVE AddAll(_, _)
\* Set.add of the trimmed captures, in order: a name already there is kept once
AddAll(set, caps) ==
  IF caps = <<>> THEN set
  ELSE LET n == Trim(Head(caps))
       IN AddAll(IF \E k \in 1..Len(set) : set[k] = n THEN set ELSE Append(set, n), Tail(caps))

\* Entry: the vocabulary guard and the collection of names
ReconcileEnter ==
  /\ pc = "call"
  /\ impl = "reconcile"
  /\ scenarios' = <<>>
  /\ scenarioIdCounter' = scenarioIdStart
  /\ nameIdx' = 1
  /\ IF testLog = Undefined
     THEN Throw /\ UNCHANGED scenarioNames
     ELSE IF ~Includes(testLog, <<"Scenario">>) /\ ~ExecTotal(testLog).found
     THEN Return(createDefaultScenariosIntegration) /\ UNCHANGED scenarioNames
     ELSE /\ scenarioNames' = AddAll(AddAll(<<>>, StartMatchAll(testLog, 1)),
                                     CompleteMatchAll(testLog, 1))
          /\ pc' = "names"
          /\ UNCHANGED <<returned, outcome, calls>>
  /\ UNCHANGED <<runVars, impl, testLog, lines, lineIdx, currentScenario, addIdx, testResults, lastIndex>>

\* First match of a pattern "LIT(.*)" compiled without flags
ExecRestExact(s, lit) ==
  LET ps == {p \in 1..Len(s) : At(s, p, lit)}
  IN IF ps = {} THEN NoMatch
     ELSE LET p == Min(ps)
              c == p + Len(lit)
              e == LineEnd(s, c)
          IN [found |-> TRUE, index |-> p, end |-> e, g1 |-> SubSeq(s, c, e - 1)]

\* testLog.match(new RegExp(`Scenario "${name}" completed successfully`)) ||
\* testLog.match(new RegExp(`${name} completed successfully`))
IsCompleted(log, name) ==
  \/ Includes(log, scenarioLit \o <<QUOTE>> \o name \o <<QUOTE>> \o completedLit)
  \/ Includes(log, name \o completedLit)

\* testLog.match(new RegExp(`Scenario "${name}" failed: (.*)`)) ||
\* testLog.match(new RegExp(`${name} failed: (.*)`))
FailedMatch(log, name) ==
  LET m == ExecRestExact(log, scenarioLit \o <<QUOTE>> \o name \o <<QUOTE>> \o failedLit \o <<":", SP>>)
  IN IF m.found THEN m ELSE ExecRestExact(log, name \o failedLit \o <<":", SP>>)

\* the status of a named scenario
NamedStatus(log, name) ==
  IF FailedMatch(log, name).found THEN "failed"
  ELSE IF IsCompleted(log, name) THEN "passed" ELSE "warning"

\* The scenario built for one name
NamedScenario(id, log, name) ==
  LET failedMatch == FailedMatch(log, name)
      sc == Scenario(id, name, NamedStatus(log, name), TRUE)
  IN IF failedMatch.found
     THEN [sc EXCEPT !.error = IF failedMatch.g1 # <<>> THEN <<failedMatch.g1>>
                               ELSE << <<"Scenario failed">> >>]
     ELSE sc

\* One iteration of for (const name of scenarioNames)
ReconcileName ==
  /\ pc = "names"
  /\ nameIdx <= Len(scenarioNames)
  /\ LET name == scenarioNames[nameIdx]
     IN IF RegExpThrows(name)
        THEN Throw /\ UNCHANGED <<scenarios, scenarioIdCounter, nameIdx>>
        ELSE /\ scenarios' = Append(scenarios, NamedScenario(scenarioIdCounter, testLog, name))
             /\ scenarioIdCounter' = scenarioIdCounter + 1
             /\ nameIdx' = nameIdx + 1
             /\ UNCHANGED <<pc, outcome, returned, calls>>
  /\ UNCHANGED <<runVars, impl, testLog, lines, lineIdx, currentScenario, scenarioNames, addIdx,
                 testResults, lastIndex>>

RECURSIVE FillPoolNoBreak(_, _, _, _, _)
\* the pool loop without its break
FillPoolNoBreak(list, counter, known, k, total) ==
  IF k > Len(integrationPool) THEN <<list, counter>>
  ELSE IF \E j \in 1..Len(known) : known[j] = integrationPool[k]
  THEN FillPoolNoBreak(list, counter, known, k + 1, total)
  ELSE FillPoolNoBreak(Append(list, Scenario(counter, integrationPool[k], "passed", TRUE)),
                       counter + 1, known, k + 1, total)

RECURSIVE FillPool(_, _, _, _, _)
\* for (const name of defaultScenarios): push the pool names that are not
\* known, stop once total is reached.  Returns <<scenarios, id counter>>.
FillPool(list, counter, known, k, total) ==
  IF k > Len(integrationPool) THEN <<list, counter>>
  ELSE IF \E j \in 1..Len(known) : known[j] = integrationPool[k]
  THEN FillPool(list, counter, known, k + 1, total)
  ELSE LET pushed == Append(list, Scenario(counter, integrationPool[k], "passed", TRUE))
       IN IF Len(pushed) >= total THEN <<pushed, counter + 1>>
          ELSE FillPool(pushed, counter + 1, known, k + 1, total)

\* the name of a generic filler: the counter is read after id took counter++
UnknownName(counter) == <<"Unknown Scenario", SP>> \o DigitsOf(counter + 1)

RECURSIVE FillUnknownIdAfter(_, _, _)
\* the generic fillers with the id read after the increment, as the name is
FillUnknownIdAfter(list, counter, total) ==
  IF Len(list) >= total THEN <<list, counter>>
  ELSE FillUnknownIdAfter(Append(list, Scenario(counter + 1, UnknownName(counter), "passed", TRUE)),
                          counter + 1, total)

RECURSIVE FillUnknown(_, _, _)
\* while (scenarios.length < totalScenarios): push a generic scenario
FillUnknown(list, counter, total) ==
  IF Len(list) >= total THEN <<list, counter>>
  ELSE FillUnknown(Append(list, Scenario(counter, UnknownName(counter), "passed", TRUE)),
                   counter + 1, total)

\* a top-up that does not ask whether the list is short of the total
ReconciledAlways(list, counter, log) ==
  LET totalMatch == ExecTotal(log)
      totalScenarios == ParseInt(totalMatch.g1)
      known == [j \in 1..Len(list) |-> list[j].name]
  IN IF totalMatch.found
     THEN LET f == FillPool(list, counter, known, 1, totalScenarios)
          IN FillUnknown(f[1], f[2], totalScenarios)
     ELSE <<list, counter>>

\* The top-up against the declared total.  Returns <<scenarios, id counter>>.
Reconciled(list, counter, log) ==
  LET totalMatch == ExecTotal(log)
      totalScenarios == ParseInt(totalMatch.g1)
      known == [j \in 1..Len(list) |-> list[j].name]
  IN IF totalMatch.found /\ Len(list) < totalScenarios
     THEN LET f == FillPool(list, counter, known, 1, totalScenarios)
          IN FillUnknown(f[1], f[2], totalScenarios)
     ELSE <<list, counter>>

\* After the loop: reconcile with the declared total and return
ReconcileFinish ==
  /\ pc = "names"
  /\ nameIdx > Len(scenarioNames)
  /\ LET r == Reconciled(scenarios, scenarioIdCounter, testLog)
     IN /\ scenarios' = r[1]
        /\ scenarioIdCounter' = r[2]
        /\ Return(IF r[1] = <<>> THEN createDefaultScenariosIntegration ELSE r[1])
  /\ UNCHANGED <<runVars, impl, testLog, lines, lineIdx, currentScenario, scenarioNames, nameIdx,
                 addIdx, testResults, lastIndex>>

(***************************************************************************)
(* TestReportGenerator and processTestLog                                  *)
(***************************************************************************)
\* the success rate computed before total is incremented
SummaryAfterStaleTotal(sum, scenario) ==
  LET total == sum.total + 1
      passed == IF scenario.status = "passed" THEN sum.passed + 1 ELSE sum.passed
      failed == IF scenario.status = "failed" THEN sum.failed + 1 ELSE sum.failed
      warning == IF scenario.status = "warning" THEN sum.warning + 1 ELSE sum.warning
  IN [total |-> total, passed |-> passed, failed |-> failed, warning |-> warning,
      successRate |-> Rate(passed * 100, sum.total)]

\* the summary after addScenario(scenario)
SummaryAfter(sum, scenario) ==
  LET total == sum.total + 1
      passed == IF scenario.status = "passed" THEN sum.passed + 1 ELSE sum.passed
      failed == IF scenario.status = "failed" THEN sum.failed + 1 ELSE sum.failed
      warning == IF scenario.status = "warning" THEN sum.warning + 1 ELSE sum.warning
  IN [total |-> total, passed |-> passed, failed |-> failed, warning |-> warning,
      successRate |-> Rate(passed * 100, total)]

\* scenarios.forEach(scenario => reportGenerator.addScenario(scenario)), one call
AddScenario ==
  /\ pc = "add"
  /\ addIdx <= Len(returned)
  /\ testResults' = [testResults EXCEPT !.scenarios = Append(@, returned[addIdx]),
                                        !.summary = SummaryAfter(@, returned[addIdx])]
  /\ addIdx' = addIdx + 1
  /\ UNCHANGED <<runVars, impl, testLog, pc, parserVars, outcome, returned, lastIndex, calls>>

\* The forEach is over.  processTestLog goes on to the metrics; the
\* line-by-line parser is not followed by a log scan.
AddDone ==
  /\ pc = "add"
  /\ addIdx > Len(returned)
  /\ pc' = IF impl = "reconcile" THEN "metrics" ELSE "done"
  /\ UNCHANGED <<runVars, impl, testLog, parserVars, outcome, returned, addIdx, testResults, lastIndex, calls>>

\* First match of /LIT\s*(\d+)ms/
ExecMetric(s, lit) ==
  LET digitsFrom(p) ==
        LET sk == {k \in p..Len(s) : ~IsSpace(s[k])}
            c == IF sk = {} THEN Len(s) + 1 ELSE Min(sk)
            nd == {k \in c..Len(s) : s[k] \notin Digits}
            e == IF nd = {} THEN Len(s) + 1 ELSE Min(nd)
        IN <<c, e>>
      ok(p) == /\ At(s, p, lit)
               /\ LET ce == digitsFrom(p + Len(lit))
                  IN ce[2] > ce[1] /\ ce[2] <= Len(s) /\ s[ce[2]] = "ms"
      ps == {p \in 1..Len(s) : ok(p)}
  IN IF ps = {} THEN NoMatch
     ELSE LET ce == digitsFrom(Min(ps) + Len(lit))
          IN [found |-> TRUE, index |-> Min(ps), end |-> ce[2] + 1, g1 |-> SubSeq(s, ce[1], ce[2] - 1)]

\* the metrics processTestLog reads from the log
LogMetrics(log) ==
  LET loadTimeMatch == ExecMetric(log, <<"Initial load time:">>)
      responseTimeMatch == ExecMetric(log, <<"Average response time:">>)
  IN [loadTime |-> IF loadTimeMatch.found THEN ParseInt(loadTimeMatch.g1) ELSE 3000,
      averageResponseTime |-> IF responseTimeMatch.found THEN ParseInt(responseTimeMatch.g1) ELSE 500]

\* addMetrics(metrics): the fields of the argument replace those of the report
MetricsAfter(old, new) ==
  [old EXCEPT !.loadTime = new.loadTime, !.averageResponseTime = new.averageResponseTime]

AddMetrics ==
  /\ pc = "metrics"
  /\ testResults' = [testResults EXCEPT !.metrics = MetricsAfter(@, LogMetrics(testLog))]
  /\ pc' = "errors"
  /\ lastIndex' = 1
  /\ UNCHANGED <<runVars, impl, testLog, parserVars, outcome, returned, addIdx, calls>>

\* errorRegex.exec(logContent) from lastIndex: /Error:|failed:/gi
ExecError(s, from) ==
  LET ps == {p \in from..Len(s) : AtI(s, p, <<"Error", ":">>) \/ AtI(s, p, <<"failed", ":">>)}
  IN IF ps = {} THEN NoMatch
     ELSE [found |-> TRUE, index |-> Min(ps), end |-> Min(ps) + 2, g1 |-> <<>>]

\* String.prototype.substring(start, end) on 0-based offsets: a negative
\* argument counts as 0 and the two are swapped when start > end
Substring(s, start, end) ==
  LET a == IF start < 0 THEN 0 ELSE IF start > Len(s) THEN Len(s) ELSE start
      b == IF end < 0 THEN 0 ELSE IF end > Len(s) THEN Len(s) ELSE end
      lo == IF a <= b THEN a ELSE b
      hi == IF a <= b THEN b ELSE a
  IN SubSeq(s, lo + 1, hi)

\* logContent.substring(match.index, logContent.indexOf('\n', match.index))
\* for the match at the 1-based position p
ErrorLineAt(s, p) == Substring(s, p - 1, IndexOf(s, <<NL>>, p) - 1)

\* One iteration of while ((match = errorRegex.exec(logContent)) !== null)
ErrorScan ==
  /\ pc = "errors"
  /\ LET match == ExecError(testLog, lastIndex)
     IN IF match.found
        THEN /\ testResults' = [testResults EXCEPT !.metrics.errors =
                   Append(@, [message |-> Trim(ErrorLineAt(testLog, match.index)),
                              scenario |-> "Unknown"])]
             /\ lastIndex' = match.end
             /\ pc' = "errors"
        ELSE /\ lastIndex' = 1
             /\ pc' = "summary"
             /\ UNCHANGED testResults
  /\ UNCHANGED <<runVars, impl, testLog, parserVars, outcome, returned, addIdx, calls>>

\* this.testResults.scenarios.filter(s => s.duration)
WithDuration(list) == SelectSeq(list, LAMBDA sc : sc.duration # <<>> /\ sc.duration[1] # 0)

RECURSIVE SumDurations(_)
\* scenarios.reduce((sum, s) => sum + s.duration, 0)
SumDurations(list) ==
  IF list = <<>> THEN 0 ELSE list[1].duration[1] + SumDurations(Tail(list))

\* generateSummary(): a falsy averageResponseTime is replaced by the mean of
\* the durations the scenarios carry (the parsers write 5000 only, so the
\* quotient is exact)
SummaryGenerated(tr) ==
  IF tr.metrics.averageResponseTime = 0 /\ Len(tr.scenarios) > 0
  THEN LET withDuration == WithDuration(tr.scenarios)
       IN IF Len(withDuration) > 0
          THEN [tr EXCEPT !.metrics.averageResponseTime =
                            SumDurations(withDuration) \div Len(withDuration)]
          ELSE tr
  ELSE tr

\* reportGenerator.saveReport(): generateHtmlReport calls generateSummary
GenerateSummary ==
  /\ pc = "summary"
  /\ testResults' = SummaryGenerated(testResults)
  /\ pc' = "done"
  /\ UNCHANGED <<runVars, impl, testLog, parserVars, outcome, returned, addIdx, lastIndex, calls>>

Next ==
  \/ LinesEnter
  \/ LinesLine
  \/ LinesFinish
  \/ ReconcileEnter
  \/ ReconcileName
  \/ ReconcileFinish
  \/ AddScenario
  \/ AddDone
  \/ AddMetrics
  \/ ErrorScan
  \/ GenerateSummary

Spec == Init /\ [][Next]_vars

(***************************************************************************)
(* Properties                                                              *)
(***************************************************************************)
\* a call of prepareScenarioResults has returned its list
Returned == outcome = "returned"

\* the name, status and id sequence of a scenario list
NameStatusId(list) ==
  [i \in 1..Len(list) |-> [name |-> list[i].name, status |-> list[i].status, id |-> list[i].id]]

\* the canonical default set of the running implementation
DefaultSet == IF impl = "lines" THEN createDefaultScenarios ELSE createDefaultScenariosIntegration

IsStartLine(line) == ExecRest(line, scenarioStartLit, 1).found
IsFailedLine(line) == ExecScenario(line, failedLit, 1).found

\* C1: no scenario in the list returned by the line-by-line parser has
\* status running.
C1_NoRunningReturned ==
  (impl = "lines" /\ Returned) => \A i \in 1..Len(returned) : returned[i].status # "running"

\* C2: in every summary built by addScenario from a returned list,
\* total = passed + failed + warning.
C2_SummaryAddsUp ==
  LET sum == testResults.summary
  IN sum.total = sum.passed + sum.failed + sum.warning

\* C3: a log shorter than 300 characters yields the canonical default set,
\* whatever lines it holds.
C3_ShortLogGivesDefaults ==
  (Returned /\ testLog # Undefined /\ Length(testLog) < 300)
    => NameStatusId(returned) = NameStatusId(DefaultSet)

\* C3 (amended): in the line-by-line parser, a log shorter than 300
\* characters yields the canonical default set, whatever lines it holds.
C3_ShortLogGivesDefaultsLines ==
  (impl = "lines" /\ Returned /\ testLog # Undefined /\ Length(testLog) < 300)
    => NameStatusId(returned) = NameStatusId(createDefaultScenarios)

\* a short log with scenario lines went through the line-by-line parser
C3_Witness ==
  /\ impl = "lines"
  /\ Returned
  /\ testLog # Undefined
  /\ Length(testLog) < 300
  /\ Len(StartMatchAll(testLog, 1)) >= 2
  /\ \E n \in Names : Includes(testLog, CompletedLine(n))

\* the log holds a line "Running scenario: x" followed, later, by a line
\* 'Scenario "x" completed successfully'
HasPair(log, x) ==
  LET ls == Split(log)
  IN \E i, j \in 1..Len(ls) : i < j /\ ls[i] = StartLine(x) /\ ls[j] = CompletedLine(x)

\* the list holds a scenario named x with status passed and an id
HasPassed(list, x) ==
  \E k \in 1..Len(list) :
    list[k].name = x /\ list[k].status = "passed" /\ list[k].id \in Nat \ {0}

HasSettledPair(log, x) ==
  LET ls == Split(log)
  IN \E i, j \in 1..Len(ls) :
       /\ i < j
       /\ ls[i] = StartLine(x)
       /\ ls[j] = CompletedLine(x)
       /\ \A k \in (i + 1)..(j - 1) : ~IsStartLine(ls[k])
       /\ \A k \in (j + 1)..Len(ls) :
            IsFailedLine(ls[k]) => \E m \in (j + 1)..(k - 1) : IsStartLine(ls[m])

MaxCalls == 3
RepeatLines == 2

\* logs parsed between two parses of the same log
OtherLogs(im) ==
  IF im = "lines"
  THEN {Join(<<StartLine(<<"a">>), StartLine(<<"a", "b">>), <<FILLER>>>>), <<>>}
  ELSE {Join(<<StartLine(<<"a">>), CompletedLine(<<"a">>), TotalLine(5)>>), <<>>}

InitRepeat ==
  \/ InitWith("lines", LogsOf(LinesForms, RepeatLines) \cup {Undefined})
  \/ InitWith("reconcile", LogsOf(ReconcileForms, RepeatLines) \cup {Undefined})

\* The caller calls prepareScenarioResults again.  Nothing of the previous
\* call is handed over: the locals of the new call are set by its entry.
CallAgain ==
  /\ outcome # "none"
  /\ Len(calls) < MaxCalls
  /\ testLog' \in {calls[1].log} \cup OtherLogs(impl)
  /\ pc' = "call"
  /\ outcome' = "none"
  /\ UNCHANGED <<runVars, impl, parserVars, returned, addIdx, testResults, lastIndex, calls>>

NextRepeat ==
  \/ LinesEnter
  \/ LinesLine
  \/ LinesFinish
  \/ ReconcileEnter
  \/ ReconcileName
  \/ ReconcileFinish
  \/ CallAgain

SpecRepeat == InitRepeat /\ [][NextRepeat]_vars

\* C5: two calls on the same log, whatever was parsed in between, have the
\* same outcome and return lists with the same name, status and id sequence.
C5_Idempotent ==
  \A i, j \in 1..Len(calls) :
    calls[i].log = calls[j].log
      => /\ calls[i].outcome = calls[j].outcome
         /\ NameStatusId(calls[i].list) = NameStatusId(calls[j].list)

\* the same log was parsed twice with another log in between, and the parses
\* built their lists from the log's own lines
C5_Witness ==
  /\ Len(calls) = 3
  /\ calls[1].log = calls[3].log
  /\ calls[2].log # calls[1].log
  /\ calls[2].outcome = "returned"
  /\ calls[3].outcome = "returned"
  /\ Len(calls[2].list) >= 2
  /\ Len(calls[3].list) >= 2
  /\ calls[3].list # createDefaultScenarios
  /\ calls[3].list # createDefaultScenariosIntegration

\* the total a "Total scenarios: N" marker declares, 0 when there is none
DeclaredTotal(log) ==
  LET m == ExecTotal(log) IN IF m.found THEN ParseInt(m.g1) ELSE 0

\* the number of scenarios the log's own start and completion lines name
ReconstructedCount(log) ==
  Len(AddAll(AddAll(<<>>, StartMatchAll(log, 1)), CompleteMatchAll(log, 1)))

\* C6: the list returned by the reconciling parser is never empty and never
\* has more entries than max(declaredTotal, reconstructedCount).
C6_ReconcileBound ==
  (impl = "reconcile" /\ Returned)
    => /\ Len(returned) >= 1
       /\ Len(returned) <= Max({DeclaredTotal(testLog), ReconstructedCount(testLog)})

\* C6 (amended): the list returned by the reconciling parser is never empty,
\* and unless it is the canonical default set it never has more entries than
\* max(declaredTotal, reconstructedCount).
C6_ReconcileBoundOrDefaults ==
  (impl = "reconcile" /\ Returned)
    => /\ Len(returned) >= 1
       /\ \/ Len(returned) <= Max({DeclaredTotal(testLog), ReconstructedCount(testLog)})
          \/ returned = createDefaultScenariosIntegration

\* the reconciling parser topped up a reconstructed list to the declared total
C6_Witness ==
  /\ impl = "reconcile"
  /\ Returned
  /\ ReconstructedCount(testLog) >= 1
  /\ DeclaredTotal(testLog) > ReconstructedCount(testLog)
  /\ Len(returned) = DeclaredTotal(testLog)

\* C7: prepareScenarioResults never throws.
C7_NeverThrows == outcome # "threw"

(***************************************************************************)
(* The concrete reconciliation scenario: a start/completed pair for A, a   *)
(* start/failed pair for B, then "Total scenarios: 4".                     *)
(***************************************************************************)
ConcreteNames == Names \cup {<<"b">>}
ConcreteDetails == {<<"d">>, <<"d", "e">>}

ConcreteLog(a, b, d) ==
  Join(<<StartLine(a), CompletedLine(a), StartLine(b), FailedLine(b, d), TotalLine(4)>>)

ConcreteLogs ==
  {ConcreteLog(a, b, d) : <<a, b, d>> \in
     {t \in ConcreteNames \X ConcreteNames \X ConcreteDetails : t[1] # t[2]}}

InitConcrete == InitWith("reconcile", ConcreteLogs)

NextConcrete ==
  \/ ReconcileEnter
  \/ ReconcileName
  \/ ReconcileFinish
  \/ AddScenario
  \/ AddDone
  \/ AddMetrics
  \/ ErrorScan
  \/ GenerateSummary

SpecConcrete == InitConcrete /\ [][NextConcrete]_vars

\* the list is: a passed, b failed with an error holding d, two pool entries,
\* ids 1 to 4
IsConcreteResult(list, a, b, d) ==
  /\ Len(list) = 4
  /\ \A i \in 1..4 : list[i].id = i
  /\ list[1].name = a /\ list[1].status = "passed"
  /\ list[2].name = b /\ list[2].status = "failed"
  /\ list[2].error # <<>> /\ Includes(list[2].error[1], d)
  /\ \A i \in 3..4 : /\ \E k \in 1..Len(integrationPool) : list[i].name = integrationPool[k]
                     /\ list[i].status = "passed"

\* C8: for the concrete log, prepareScenarioResults returns exactly 4
\* entries, ids 1 to 4: A passed, B failed with an error holding DETAIL, then
\* two entries of the canonical pool.
C8_ConcreteScenario ==
  pc \in {"add", "metrics", "errors", "done"}
    => /\ Returned
       /\ \E a \in ConcreteNames, b \in ConcreteNames, d \in ConcreteDetails :
            testLog = ConcreteLog(a, b, d) /\ IsConcreteResult(returned, a, b, d)

\* C9: the empty log yields the canonical default set, and once its
\* scenarios are added to a fresh report the summary has total = pool size
\* and successRate = 100.
C9_EmptyLog ==
  (testLog = <<>> /\ Returned)
    => /\ returned = DefaultSet
       /\ (pc # "add" \/ addIdx > Len(returned))
            => LET sum == testResults.summary
               IN /\ sum.total = Len(IF impl = "lines" THEN helpersPool ELSE integrationPool)
                  /\ sum.successRate.den # 0
                  /\ sum.successRate.num = 100 * sum.successRate.den

\* the scenarios of the empty log have all been added to the report
C9_Witness ==
  /\ testLog = <<>>
  /\ Returned
  /\ pc = "done"
  /\ Len(testResults.scenarios) = Len(returned)
  /\ Len(returned) >= 3

\* positions of the occurrences of Error: and failed: in the log, in order
RECURSIVE ErrorHits(_, _)
ErrorHits(log, from) ==
  LET ps == {p \in from..Len(log) : AtI(log, p, <<"Error", ":">>) \/ AtI(log, p, <<"failed", ":">>)}
  IN IF ps = {} THEN <<>> ELSE <<Min(ps)>> \o ErrorHits(log, Min(ps) + 1)

\* one entry per occurrence: the text from the match to the next line break
\* or the end of the text, scenario "Unknown"
ExpectedErrors(log) ==
  LET hits == ErrorHits(log, 1)
  IN [k \in 1..Len(hits) |->
        [message |-> Trim(SubSeq(log, hits[k], LineEnd(log, hits[k]) - 1)),
         scenario |-> "Unknown"]]

\* C10: after the error scan of processTestLog, metrics.errors holds one
\* entry per occurrence of Error: or failed:, also for an occurrence on a last
\* line without line break, with the text from the match to the end of its line.
C10_ErrorsCaptured ==
  (impl = "reconcile" /\ Returned /\ pc = "done")
    => testResults.metrics.errors = ExpectedErrors(testLog)

\* the list holds a generic filler
HasUnknown(list) ==
  \E i \in 1..Len(list) : SubSeq(list[i].name, 1, 1) = <<"Unknown Scenario">>

\* C11: in every list prepareScenarioResults returns, the entry at position
\* i has id i: ids are unique, 1-based and in discovery order.
C11_IdsArePositions ==
  Returned => \A i \in 1..Len(returned) : returned[i].id = i

\* a list with pool fill-ins and a generic filler was returned
C11_Witness ==
  /\ Returned
  /\ HasUnknown(returned)
  /\ \E i \in 1..Len(returned) : returned[i].name = integrationPool[1]
  /\ Len(returned) = 5

\* C12: in every list prepareScenarioResults returns, a scenario carries an
\* error only when its status is failed.
C12_ErrorOnlyWhenFailed ==
  Returned => \A i \in 1..Len(returned) :
                returned[i].error # <<>> => returned[i].status = "failed"

\* C13: the success rate is never NaN: it is 0 when total = 0 and
\* passed / total * 100 when total > 0.
C13_SuccessRateGuarded ==
  LET sum == testResults.summary
  IN /\ sum.successRate.den # 0
     /\ sum.total = 0 => sum.successRate.num = 0
     /\ sum.total > 0 => sum.successRate.num * sum.total = sum.passed * 100 * sum.successRate.den

\* a report with passed and other scenarios has been built
C13_Witness ==
  LET sum == testResults.summary
  IN /\ pc = "done"
     /\ sum.total >= 2
     /\ sum.passed >= 1
     /\ sum.passed < sum.total

\* C14: with an absent log (no text, or an empty one) the run ends without
\* failing, with the canonical default set as scenario list and zero-valued
\* metrics.
C14_AbsentInput ==
  ((testLog = Undefined \/ testLog = <<>>) /\ pc = "done")
    => /\ Returned
       /\ testResults.scenarios = DefaultSet
       /\ testResults.metrics.loadTime = 0
       /\ testResults.metrics.averageResponseTime = 0

(***************************************************************************)
(* Letter case: a log is parsed, then a copy of it that differs only in    *)
(* the letter case of marker words and of the names on completion and      *)
(* failure lines.                                                          *)
(***************************************************************************)
CaseLines == 2
CaseNames == {<<"a">>, <<"a", "b">>}

CaseForms ==
  {StartLine(n) : n \in CaseNames} \cup {CompletedLine(n) : n \in CaseNames}
    \cup {FailedLine(n, <<"d">>) : n \in CaseNames}

MarkerWords == {"Running scenario:", "Scenario", "completed successfully", "failed"}

\* String.prototype.toUpperCase on one token
Upper(t) ==
  CASE t = "Running scenario:" -> "RUNNING SCENARIO:"
    [] t = "Scenario" -> "SCENARIO"
    [] t = "completed successfully" -> "COMPLETED SUCCESSFULLY"
    [] t = "failed" -> "FAILED"
    [] t = "a" -> "A"
    [] t = "b" -> "B"
    [] OTHER -> t

\* position k of the log lies between the quotes of a completion or failure line
InQuotes(log, k) ==
  LET nls == {j \in 1..(k - 1) : log[j] = NL}
      start == IF nls = {} THEN 1 ELSE Max(nls) + 1
  IN Cardinality({j \in start..(k - 1) : log[j] = QUOTE}) = 1

\* the log with its marker words (m) and its quoted names (nm) in upper case
CaseVariant(log, m, nm) ==
  [k \in 1..Len(log) |->
     IF log[k] \in MarkerWords THEN (IF m THEN Upper(log[k]) ELSE log[k])
     ELSE IF nm /\ log[k] \in {"a", "b"} /\ InQuotes(log, k) THEN Upper(log[k])
     ELSE log[k]]

InitCase ==
  \/ InitWith("lines", {Join(ls \o <<(<<FILLER>>)>>) : ls \in SeqsUpTo(CaseForms, CaseLines)})
  \/ InitWith("reconcile", {Join(ls) : ls \in SeqsUpTo(CaseForms, CaseLines)})

\* The caller parses a copy of the first log that differs in letter case only
CallVariant ==
  /\ outcome # "none"
  /\ Len(calls) = 1
  /\ \E m, nm \in BOOLEAN :
       /\ m \/ nm
       /\ testLog' = CaseVariant(calls[1].log, m, nm)
  /\ pc' = "call"
  /\ outcome' = "none"
  /\ UNCHANGED <<runVars, impl, parserVars, returned, addIdx, testResults, lastIndex, calls>>

NextCase ==
  \/ LinesEnter
  \/ LinesLine
  \/ LinesFinish
  \/ ReconcileEnter
  \/ ReconcileName
  \/ ReconcileFinish
  \/ CallVariant

SpecCase == InitCase /\ [][NextCase]_vars

\* the two texts are equal up to letter case
SameUpToCase(a, b) ==
  Len(a) = Len(b) /\ \A k \in 1..Len(a) : Fold(a[k]) = Fold(b[k])

StatusSeq(list) == [i \in 1..Len(list) |-> list[i].status]

\* C15: two logs that differ only in the letter case of the marker words or
\* of the name on a completion or failure line yield lists of the same length
\* with the same statuses.
C15_CaseInsensitive ==
  \A i, j \in 1..Len(calls) :
    SameUpToCase(calls[i].log, calls[j].log)
      => /\ calls[i].outcome = calls[j].outcome
         /\ StatusSeq(calls[i].list) = StatusSeq(calls[j].list)

\* the line-by-line loop is at a line, with a scenario open
AtLineOpen ==
  /\ impl = "lines"
  /\ pc = "loop"
  /\ lineIdx <= Len(lines)
  /\ currentScenario # <<>>

\* the correlation rule: the name of the line is a substring of the open
\* scenario's name, or the other way round, or the line holds that name
Accepted(n, line, cur) ==
  Includes(cur.name, n) \/ Includes(n, cur.name) \/ Includes(line, cur.name)

C19_FailureDetail ==
  [][\A n \in Names :
       (AtLineOpen /\ lines[lineIdx] = FailedLine(n, <<"d">>)
          /\ Accepted(n, lines[lineIdx], currentScenario[1]))
         => LET after == currentScenario'[1]
            IN /\ after.status = "failed"
               /\ after.duration = <<5000>>
               /\ after.error = << <<"d">> >>]_vars

(***************************************************************************)
(* Warnings: logs of start, completion, failure and warning lines for the  *)
(* line-by-line parser, long enough to pass the length threshold.          *)
(***************************************************************************)
WarnLines == 4
WarnDetails == {<<"w">>, <<"v">>}

\* the completion line for "(" does not correlate with the scenario "a"
WarnForms ==
  {StartLine(<<"a">>), CompletedLine(<<"a">>), CompletedLine(<<"(">>), FailedLine(<<"a">>, <<"d">>)}
    \cup {WarningLine(d) : d \in WarnDetails}

InitWarn ==
  InitWith("lines", {Join(ls \o <<(<<FILLER>>)>>) : ls \in SeqsUpTo(WarnForms, WarnLines)})

NextWarn ==
  \/ LinesEnter
  \/ LinesLine
  \/ LinesFinish

SpecWarn == InitWarn /\ [][NextWarn]_vars

\* the indices of the start lines of ls, in order
RECURSIVE StartsOf(_, _)
StartsOf(ls, k) ==
  IF k > Len(ls) THEN <<>>
  ELSE IF \E n \in Names : ls[k] = StartLine(n) THEN <<k>> \o StartsOf(ls, k + 1)
  ELSE StartsOf(ls, k + 1)

\* the lines of the i-th scenario: after its start line, up to the next one
SpanOf(ls, i) ==
  LET st == StartsOf(ls, 1)
      last == IF i < Len(st) THEN st[i + 1] - 1 ELSE Len(ls)
  IN SubSeq(ls, st[i] + 1, last)

\* the details of the warning lines of a span, in line order
RECURSIVE WarningsOf(_)
WarningsOf(span) ==
  IF span = <<>> THEN <<>>
  ELSE IF \E d \in WarnDetails : Head(span) = WarningLine(d)
  THEN <<SubSeq(Head(span), 3, Len(Head(span)))>> \o WarningsOf(Tail(span))
  ELSE WarningsOf(Tail(span))

\* the span holds a completion or failure line accepted for the name
Resolved(span, name) ==
  \E k \in 1..Len(span) : \E n \in Names :
    /\ span[k] = CompletedLine(n) \/ span[k] = FailedLine(n, <<"d">>)
    /\ Includes(name, n) \/ Includes(n, name) \/ Includes(span[k], name)

MaxRecords == 2
RunNames == {<<"a">>, <<"a", "b">>}

\* a record { name, status, error? } of the scenario-execution collaborator;
\* error is <<>> when absent
Record(n, st, err) == [name |-> n, status |-> st, error |-> err]

\* a null entry of testResults.scenarios
NullRecord == Record(<<>>, "<null>", <<>>)

RunnerRecords ==
  {Record(n, st, <<>>) : n \in RunNames, st \in {"success", "passed"}}
    \cup {Record(n, "failed", e) : n \in RunNames, e \in {<<>>, << <<"d">> >>}}
    \cup {NullRecord}

\* what await testRunner.runShinyTests() gives: a rejection, nothing, or a
\* result with or without a scenarios array
RunnerOutcomes ==
  {[kind |-> k, success |-> FALSE, hasScenarios |-> FALSE, scenarios |-> <<>>] :
     k \in {"threw", "nothing"}}
    \cup {[kind |-> "results", success |-> ok, hasScenarios |-> FALSE, scenarios |-> <<>>] :
            ok \in BOOLEAN}
    \cup {[kind |-> "results", success |-> ok, hasScenarios |-> TRUE, scenarios |-> rs] :
            ok \in BOOLEAN, rs \in SeqsUpTo(RunnerRecords, MaxRecords)}

\* a message that holds no marker of the log vocabulary
TextLine == <<"<text>">>
\* log('All tests completed successfully')
AllTestsLine == <<"All tests", SP, "completed successfully">>
\* log(`Tests failed: ${testResults.error || 'Unknown error'}`)
TestsFailedLine == <<"Tests", SP, "failed", ":", SP, "Unknown error">>

RECURSIVE JoinNL(_)
\* message + '\n' for each message
JoinNL(msgs) == IF msgs = <<>> THEN <<>> ELSE Head(msgs) \o <<NL>> \o JoinNL(Tail(msgs))

\* the stream after log(message) for each message: logStream.write is
\* called when logStream.writable; a write after end() is counted
LogStreamAfter(stream, msgs) ==
  IF stream.writable /\ stream.endCalls > 0
  THEN [stream EXCEPT !.lateWrites = @ + Len(msgs)]
  ELSE stream

\* the file after log(message) for each message
LogFileAfter(stream, file, msgs) ==
  IF stream.writable THEN [file EXCEPT !.content = @ \o JoinNL(msgs)] ELSE file

\* the log helper, for a sequence of messages
Log(msgs) ==
  /\ logStream' = LogStreamAfter(logStream, msgs)
  /\ logFile' = LogFileAfter(logStream, logFile, msgs)

\* an end() that leaves the stream writable
EndStillWritable(stream) == [stream EXCEPT !.endCalls = @ + 1]

\* logStream.end(callback): no write is accepted from here on
End(stream) == [stream EXCEPT !.endCalls = @ + 1, !.writable = FALSE]

\* fs.readFileSync(logFile): a read before the end callback is counted
ReadFile(stream, file) ==
  [file EXCEPT !.reads = @ + 1,
               !.earlyReads = IF stream.closed THEN @ ELSE @ + 1]

pipelineVars == <<impl, testLog, pc, parserVars, outcome, returned, addIdx, testResults,
                  lastIndex, calls>>

InitRun ==
  /\ variant \in {"core", "example", "exampleLocal"}
  /\ rpc = "start"
  /\ runnerResults = <<>>
  /\ recIdx = 1
  /\ logStream = NewLogStream
  /\ logFile = NewLogFile
  /\ impl = "reconcile"
  /\ testLog = <<>>
  /\ pc = "idle"
  /\ lines = <<>>
  /\ lineIdx = 1
  /\ currentScenario = <<>>
  /\ scenarios = <<>>
  /\ scenarioIdCounter = 1
  /\ scenarioNames = <<>>
  /\ nameIdx = 1
  /\ outcome = "none"
  /\ returned = <<>>
  /\ addIdx = 1
  /\ testResults = NewTestResults
  /\ lastIndex = 1
  /\ calls = <<>>

\* From the creation of the stream to the call of the test runner.  The
\* example throws when it cannot locate the report generator; a test runner
\* that cannot be loaded is logged and replaced by the mock.
RunStart ==
  /\ rpc = "start"
  /\ \E located, loaded \in BOOLEAN :
       IF variant # "core" /\ ~located
       THEN /\ Log(<<TextLine, TextLine>>)
            /\ rpc' = "catch"
       ELSE /\ Log(<<TextLine, TextLine>>
                    \o (IF loaded THEN <<>> ELSE <<TextLine, TextLine>>)
                    \o <<TextLine>>)
            /\ rpc' = "runner"
  /\ UNCHANGED <<variant, runnerResults, recIdx, pipelineVars>>

\* const testResults = await testRunner.runShinyTests(...)
RunTests ==
  /\ rpc = "runner"
  /\ \E r \in RunnerOutcomes :
       /\ runnerResults' = <<r>>
       /\ rpc' = IF r.kind = "threw" THEN "catch" ELSE "results"
  /\ UNCHANGED <<variant, recIdx, logStream, logFile, pipelineVars>>

\* The messages after the run: the completion time, the verdict, and the
\* declared total when there is a scenarios array
LogResults ==
  /\ rpc = "results"
  /\ LET r == runnerResults[1]
         verdict == IF r.kind = "results" /\ r.success THEN AllTestsLine
                    ELSE IF r.kind = "results" THEN TestsFailedLine
                    ELSE TextLine
         listed == r.kind = "results" /\ r.hasScenarios
     IN /\ Log(<<TextLine, verdict>>
                \o (IF listed THEN <<TotalLine(Len(r.scenarios))>> ELSE <<>>))
        /\ rpc' = IF listed /\ r.scenarios # <<>> THEN "scenarios" ELSE "closing"
  /\ recIdx' = 1
  /\ UNCHANGED <<variant, runnerResults, pipelineVars>>

\* scenario.status === 'success' || scenario.status === 'passed' in the report
\* integration, scenario.status === 'success' in the example
IsSuccess(v, status) ==
  IF v = "core" THEN status \in {"success", "passed"} ELSE status = "success"

\* the line written for one record
RecordLine(v, r) ==
  IF IsSuccess(v, r.status) THEN CompletedLine(r.name)
  ELSE FailedLine(r.name, IF r.error # <<>> THEN r.error[1] ELSE <<"Unknown error">>)

\* One call of the testResults.scenarios.forEach callback; reading the
\* status of a null entry throws
LogScenario ==
  /\ rpc = "scenarios"
  /\ recIdx <= Len(runnerResults[1].scenarios)
  /\ LET r == runnerResults[1].scenarios[recIdx]
     IN IF r = NullRecord
        THEN /\ rpc' = "catch"
             /\ UNCHANGED <<recIdx, logStream, logFile>>
        ELSE /\ Log(<<RecordLine(variant, r)>>)
             /\ recIdx' = recIdx + 1
             /\ rpc' = IF recIdx = Len(runnerResults[1].scenarios) THEN "closing" ELSE "scenarios"
  /\ UNCHANGED <<variant, runnerResults, pipelineVars>>

\* log('Closing log stream...') and logStream.end(callback), awaited
CloseStream ==
  /\ rpc = "closing"
  /\ logStream' = End(LogStreamAfter(logStream, <<TextLine>>))
  /\ logFile' = LogFileAfter(logStream, logFile, <<TextLine>>)
  /\ rpc' = "ending"
  /\ UNCHANGED <<variant, runnerResults, recIdx, pipelineVars>>

\* The callback of end() fires and resolves the awaited promise
StreamFinished ==
  /\ rpc \in {"ending", "catchEnding"}
  /\ logStream' = [logStream EXCEPT !.closed = TRUE]
  /\ rpc' = IF rpc = "ending" THEN "report" ELSE "rethrown"
  /\ UNCHANGED <<variant, runnerResults, recIdx, logFile, pipelineVars>>

\* processTestLog(testOptions.logFile, ...) of the report integration reads
\* the file and hands its text to prepareScenarioResults
ProcessTestLog ==
  /\ rpc = "report"
  /\ variant = "core"
  /\ logFile' = ReadFile(logStream, logFile)
  /\ testLog' = logFile.content
  /\ pc' = "call"
  /\ rpc' = "reporting"
  /\ UNCHANGED <<variant, runnerResults, recIdx, logStream, impl, parserVars, outcome,
                 returned, addIdx, testResults, lastIndex, calls>>

\* processTestLog is over: it returns the report path, or null when
\* something threw inside it
ReportDone ==
  /\ rpc = "reporting"
  /\ pc = "done"
  /\ rpc' = "returned"
  /\ UNCHANGED <<variant, runnerResults, recIdx, logStream, logFile, pipelineVars>>

\* The example calls the processTestLog of the imported report generator:
\* it reads the file, and returns or throws
ImportedReport ==
  /\ rpc = "report"
  /\ variant = "example"
  /\ logFile' = ReadFile(logStream, logFile)
  /\ \E threw \in BOOLEAN : rpc' = IF threw THEN "catch" ELSE "debug"
  /\ UNCHANGED <<variant, runnerResults, recIdx, logStream, pipelineVars>>

\* The debug output of the example: fs.readFileSync of the log and
\* reportGenerator.prepareScenarioResults(logContent), which may throw
DebugParse ==
  /\ rpc = "debug"
  /\ logFile' = ReadFile(logStream, logFile)
  /\ \E threw \in BOOLEAN : rpc' = IF threw THEN "catch" ELSE "returned"
  /\ UNCHANGED <<variant, runnerResults, recIdx, logStream, pipelineVars>>

\* localProcessTestLog of the example: it logs, reads the file into the
\* report, logs again and returns
LocalReport ==
  /\ rpc = "report"
  /\ variant = "exampleLocal"
  /\ logStream' = LogStreamAfter(logStream, <<TextLine, TextLine>>)
  /\ logFile' = ReadFile(logStream, LogFileAfter(logStream, logFile, <<TextLine, TextLine>>))
  /\ rpc' = "returned"
  /\ UNCHANGED <<variant, runnerResults, recIdx, pipelineVars>>

\* The catch block: two messages, then end() when the stream is writable
Catch ==
  /\ rpc = "catch"
  /\ LET logged == LogStreamAfter(logStream, <<TextLine, TextLine>>)
     IN /\ logFile' = LogFileAfter(logStream, logFile, <<TextLine, TextLine>>)
        /\ IF logged.writable
           THEN logStream' = End(logged) /\ rpc' = "catchEnding"
           ELSE logStream' = logged /\ rpc' = "rethrown"
  /\ UNCHANGED <<variant, runnerResults, recIdx, pipelineVars>>

NextRun ==
  \/ RunStart
  \/ RunTests
  \/ LogResults
  \/ LogScenario
  \/ CloseStream
  \/ StreamFinished
  \/ ProcessTestLog
  \/ ReportDone
  \/ ImportedReport
  \/ DebugParse
  \/ LocalReport
  \/ Catch
  \/ ReconcileEnter
  \/ ReconcileName
  \/ ReconcileFinish
  \/ AddScenario
  \/ AddDone
  \/ AddMetrics
  \/ ErrorScan
  \/ GenerateSummary

SpecRun == InitRun /\ [][NextRun]_vars

\* the text is a line 'Scenario "name" failed: ...'
IsFailedRecordLine(text, name) ==
  LET prefix == <<"Scenario", SP, QUOTE>> \o name \o <<QUOTE, SP, "failed", ":", SP>>
  IN /\ Len(text) > Len(prefix)
     /\ SubSeq(text, 1, Len(prefix)) = prefix
     /\ \A k \in 1..Len(text) : text[k] # NL

\* C16: for every record of the collaborator, runShinyDashboardTest writes
\* 'Scenario "name" completed successfully' when the status is success or
\* passed and 'Scenario "name" failed: ...' for any other status, in every
\* variant.
C16_RecordLines ==
  [][(rpc = "scenarios" /\ recIdx <= Len(runnerResults[1].scenarios)
        /\ runnerResults[1].scenarios[recIdx] # NullRecord)
       => LET r == runnerResults[1].scenarios[recIdx]
              old == logFile.content
              new == logFile'.content
              line == SubSeq(new, Len(old) + 1, Len(new) - 1)
          IN /\ Len(new) > Len(old)
             /\ SubSeq(new, 1, Len(old)) = old
             /\ new[Len(new)] = NL
             /\ IF r.status \in {"success", "passed"}
                THEN line = <<"Scenario", SP, QUOTE>> \o r.name
                              \o <<QUOTE, SP, "completed successfully">>
                ELSE IsFailedRecordLine(line, r.name)]_vars

\* C17: nothing is written to the log stream after end(), end() is called
\* at most once, and the log file is read only after the end callback fired.
C17_StreamOrder ==
  /\ logStream.lateWrites = 0
  /\ logStream.endCalls <= 1
  /\ logFile.earlyReads = 0

\* report generation threw after the stream was ended and read: the catch
\* block ran on the ended stream
C17_Witness ==
  /\ rpc = "rethrown"
  /\ logStream.endCalls = 1
  /\ logStream.closed
  /\ logFile.reads >= 1
  /\ runnerResults # <<>>
  /\ Len(runnerResults[1].scenarios) = 2

(***************************************************************************)
(* Top-up: logs for the reconciling parser whose scenarios may bear names  *)
(* of the canonical pool, ending with or without a declared total.         *)
(***************************************************************************)
TopLines == 2

\* a name outside the pool, the second and the last name of the pool
TopNames == {<<"a">>, <<"Test Dashboard Input Controls">>, <<"Test Dashboard Responsiveness">>}

\* fewer than the names, within the pool, one and two past names and pool
TopTotals == {1, 3, 6, 7}

TopForms ==
  {StartLine(n) : n \in TopNames} \cup {CompletedLine(n) : n \in TopNames}
    \cup {FailedLine(n, <<"d">>) : n \in TopNames}

TopLogs ==
  {Join(ls) : ls \in SeqsUpTo(TopForms, TopLines)}
    \cup {Join(ls \o <<TotalLine(t)>>) : ls \in SeqsUpTo(TopForms, TopLines), t \in TopTotals}

InitTopUp == InitWith("reconcile", TopLogs)

NextTopUp ==
  \/ ReconcileEnter
  \/ ReconcileName
  \/ ReconcileFinish

SpecTopUp == InitTopUp /\ [][NextTopUp]_vars

\* the canonical pool as the report integration documents it
PoolNames ==
  << <<"Navigate Dashboard Tabs">>, <<"Test Dashboard Input Controls">>,
     <<"Test Dashboard Plot Interactions">>, <<"Test Dashboard Responsiveness">> >>

\* the pool names that none of the first r entries of the list bears, in pool order
RECURSIVE MissingFrom(_, _, _)
MissingFrom(list, r, k) ==
  IF k > Len(PoolNames) THEN <<>>
  ELSE IF \E j \in 1..r : list[j].name = PoolNames[k] THEN MissingFrom(list, r, k + 1)
  ELSE <<PoolNames[k]>> \o MissingFrom(list, r, k + 1)

IsPlaceholder(sc) == sc.status = "passed" /\ sc.duration = <<5000>>

\* C21: when the declared total N is larger than the reconstructed count r,
\* the returned list has exactly N entries: after the first r, the missing
\* pool names in pool order (passed, 5000) up to N or the end of the pool,
\* then entries named 'Unknown Scenario ...' (passed, 5000).
C21_TopUpOrder ==
  (impl = "reconcile" /\ Returned /\ DeclaredTotal(testLog) > ReconstructedCount(testLog))
    => LET N == DeclaredTotal(testLog)
           r == ReconstructedCount(testLog)
           missing == MissingFrom(returned, r, 1)
           m == IF Len(missing) < N - r THEN Len(missing) ELSE N - r
       IN /\ Len(returned) = N
          /\ \A i \in 1..m : returned[r + i].name = missing[i] /\ IsPlaceholder(returned[r + i])
          /\ \A i \in (r + m + 1)..N :
               /\ SubSeq(returned[i].name, 1, 1) = <<"Unknown Scenario">>
               /\ IsPlaceholder(returned[i])

\* a scenario bearing a pool name was topped up with the other pool names
\* and two generic fillers
C21_Witness ==
  /\ impl = "reconcile"
  /\ Returned
  /\ ReconstructedCount(testLog) = 2
  /\ DeclaredTotal(testLog) = 7
  /\ \E j \in 1..2 : returned[j].name = PoolNames[2]
  /\ returned[3].name = PoolNames[1]
  /\ HasUnknown(returned)

\* the reconstructed list is complete: the name loop is over
Reconstructed ==
  /\ impl = "reconcile"
  /\ pc = "names"
  /\ nameIdx > Len(scenarioNames)

\* C22: reconciliation only appends: the reconstructed scenarios (at least
\* one) are an unmodified prefix of the returned list, and the returned list
\* is the reconstructed one when the declared total is absent or not larger
\* than the reconstructed count.
C22_OnlyAppends ==
  [][(Reconstructed /\ scenarios # <<>>)
       => /\ Len(returned') >= Len(scenarios)
          /\ SubSeq(returned', 1, Len(scenarios)) = scenarios
          /\ (\A t \in TopTotals : ~Includes(testLog, TotalLine(t)) \/ t <= Len(scenarios))
               => returned' = scenarios]_vars

\* a reconstructed list of two was returned as it is under a declared total of 1
C22_Witness ==
  /\ impl = "reconcile"
  /\ Returned
  /\ Includes(testLog, TotalLine(1))
  /\ Len(scenarios) = 2
  /\ returned = scenarios
  /\ returned[1].name # returned[2].name

\* the log has no line that bears a scenario name
NoNamedEvent(log) ==
  /\ ~Includes(log, <<"Running scenario:">>)
  /\ ~Includes(log, <<"Scenario">>)

\* C23: a log that yields zero scenarios bearing a name (only warnings, only
\* errors, only a 'Total scenarios: N' marker) gives the canonical default
\* set: every pool name, in pool order, each with status passed.
C23_NoNamesGiveDefaults ==
  (Returned /\ NoNamedEvent(testLog))
    => NameStatusId(returned) = NameStatusId(DefaultSet)

(***************************************************************************)
(* Metrics: logs for processTestLog with and without the metric markers.   *)
(***************************************************************************)
MetricLines == 2

MetricValues == {0, 7}

MetricForms ==
  {StartLine(<<"a">>), CompletedLine(<<"a">>), FailedLine(<<"a">>, <<"d">>)}
    \cup {ResponseTimeLine(n) : n \in MetricValues}
    \cup {LoadTimeLine(n) : n \in MetricValues}

InitMetrics == InitWith("reconcile", {Join(ls) : ls \in SeqsUpTo(MetricForms, MetricLines)})

NextMetrics ==
  \/ ReconcileEnter
  \/ ReconcileName
  \/ ReconcileFinish
  \/ AddScenario
  \/ AddDone
  \/ AddMetrics
  \/ ErrorScan
  \/ GenerateSummary

SpecMetrics == InitMetrics /\ [][NextMetrics]_vars

\* the value of the first marker 'Average response time: Xms' of the log,
\* <<>> when the log has none
ResponseMarker(log) ==
  LET ps == {p \in 1..Len(log) : \E n \in MetricValues :
               At(log, p, <<"Average response time:", SP>> \o DigitsOf(n) \o <<"ms">>)}
  IN IF ps = {} THEN <<>>
     ELSE <<CHOOSE n \in MetricValues :
              At(log, Min(ps), <<"Average response time:", SP>> \o DigitsOf(n) \o <<"ms">>)>>

\* C24: after processTestLog and generateSummary, averageResponseTime is the
\* value X of the marker 'Average response time: Xms' when the log has one
\* (X = 0 included); otherwise the arithmetic mean of the scenario durations
\* if any scenario carries a duration; otherwise 500.
C24_AverageResponseTime ==
  (impl = "reconcile" /\ Returned /\ pc = "done")
    => LET marker == ResponseMarker(testLog)
           carrying == {i \in 1..Len(testResults.scenarios) :
                          testResults.scenarios[i].duration # <<>>}
           average == testResults.metrics.averageResponseTime
       IN IF marker # <<>> THEN average = marker[1]
          ELSE IF carrying # {}
          THEN average * Cardinality(carrying) = SumDurations(testResults.scenarios)
          ELSE average = 500

(***************************************************************************)
(* Merge: a TestReportGenerator receives addMetrics and addError calls in  *)
(* any order.                                                              *)
(***************************************************************************)
MaxErrors == 2

MetricFields == {"loadTime", "interactionTime", "averageResponseTime"}

MergeValues == {0, 7, 9}

\* the objects passed to addMetrics: any of the fields, any of the values
MergeArguments == UNION {[F -> MergeValues] : F \in SUBSET MetricFields}

\* { ...this.testResults.metrics, ...metrics }
Spread(old, metrics) ==
  [f \in DOMAIN old \cup DOMAIN metrics |-> IF f \in DOMAIN metrics THEN metrics[f] ELSE old[f]]

InitMerge ==
  /\ RunIdle
  /\ impl = "reconcile"
  /\ testLog = <<>>
  /\ pc = "merge"
  /\ lines = <<>>
  /\ lineIdx = 1
  /\ currentScenario = <<>>
  /\ scenarios = <<>>
  /\ scenarioIdCounter = 1
  /\ scenarioNames = <<>>
  /\ nameIdx = 1
  /\ outcome = "none"
  /\ returned = <<>>
  /\ addIdx = 1
  /\ testResults = NewTestResults
  /\ lastIndex = 1
  /\ calls = <<>>

\* addMetrics(metrics)
addMetrics ==
  /\ pc = "merge"
  /\ \E metrics \in MergeArguments :
       testResults' = [testResults EXCEPT !.metrics = Spread(@, metrics)]
  /\ UNCHANGED <<runVars, impl, testLog, pc, parserVars, outcome, returned, addIdx, lastIndex, calls>>

\* addError(error)
addError ==
  /\ pc = "merge"
  /\ Len(testResults.metrics.errors) < MaxErrors
  /\ \E error \in {[message |-> <<"e">>, scenario |-> "Unknown"],
                      [message |-> <<"f">>, scenario |-> "Unknown"]} :
       testResults' = [testResults EXCEPT !.metrics.errors = Append(@, error)]
  /\ UNCHANGED <<runVars, impl, testLog, pc, parserVars, outcome, returned, addIdx, lastIndex, calls>>

NextMerge ==
  \/ addMetrics
  \/ addError

SpecMerge == InitMerge /\ [][NextMerge]_vars

\* C25: across any sequence of addMetrics calls, a metrics field that an
\* earlier call set to a non-default value is never overwritten by a later
\* call, and the errors list built by addError is left unchanged by
\* addMetrics.
C25_MergeKeepsSetFields ==
  [][pc = "merge" /\ Len(testResults'.metrics.errors) <= Len(testResults.metrics.errors)
       => /\ \A f \in MetricFields :
               testResults.metrics[f] # 0 => testResults'.metrics[f] = testResults.metrics[f]
          /\ testResults'.metrics.errors = testResults.metrics.errors]_vars

\* C26: every scenario of a returned list, whatever its status (passed,
\* failed or warning), has a startTime, an endTime and a duration of 5000.
C26_TimesAndDuration ==
  Returned
    => \A i \in 1..Len(returned) :
         returned[i].status \in {"passed", "failed", "warning"}
           => /\ returned[i].startTime
              /\ returned[i].endTime
              /\ returned[i].duration = <<5000>>

\* C27: in the line-by-line parser a line only appends to the result list
\* and never changes an entry already in it; a completion, failure or
\* warning line leaves the list as it is, and changes nothing but the line
\* position when no scenario is open; the list returned starts with the
\* entries appended during the loop.
C27_OnlyOpenScenarioChanges ==
  [][(impl = "lines" /\ pc = "loop")
       => /\ Len(scenarios') >= Len(scenarios)
          /\ SubSeq(scenarios', 1, Len(scenarios)) = scenarios
          /\ (lineIdx <= Len(lines) /\ ~IsStartLine(lines[lineIdx]))
               => /\ scenarios' = scenarios
                  /\ scenarioIdCounter' = scenarioIdCounter
                  /\ currentScenario = <<>> => currentScenario' = <<>>
          /\ (outcome' = "returned" /\ scenarios # <<>>)
               => SubSeq(returned', 1, Len(scenarios)) = scenarios]_vars

\* a completion line has closed the open scenario and left the entry
\* appended before it as it was
C27_Witness ==
  /\ impl = "lines"
  /\ pc = "loop"
  /\ Len(scenarios) = 1
  /\ scenarios[1].status = "running"
  /\ lineIdx > 3
  /\ ~IsStartLine(lines[lineIdx - 1])
  /\ currentScenario # <<>>
  /\ currentScenario[1].status = "passed"

\* the records the test runner handed over: none is null and no two bear
\* the same name
DistinctRecords ==
  /\ runnerResults # <<>>
  /\ runnerResults[1].hasScenarios
  /\ LET rs == runnerResults[1].scenarios
     IN /\ \A i \in 1..Len(rs) : rs[i] # NullRecord
        /\ \A i, j \in 1..Len(rs) : rs[i].name = rs[j].name => i = j

\* C28: round trip through the log: when runShinyDashboardTest has logged
\* records with distinct names and the reconciling parser has parsed that
\* log, every record is in the result under its own name, failed if it was
\* logged as failed and passed if it was logged as completed.
C28_RoundTrip ==
  (variant = "core" /\ rpc \in {"reporting", "returned"} /\ Returned /\ DistinctRecords)
    => LET rs == runnerResults[1].scenarios
       IN \A i \in 1..Len(rs) :
            \E k \in 1..Len(returned) :
              /\ returned[k].name = rs[i].name
              /\ returned[k].status
                   = IF rs[i].status \in {"success", "passed"} THEN "passed" ELSE "failed"

\* C29: every generic filler of the reconciling parser is named
\* 'Unknown Scenario N' with N its own id, which is its position in the
\* returned list.
C29_UnknownNumber ==
  (impl = "reconcile" /\ Returned)
    => \A i \in 1..Len(returned) :
         SubSeq(returned[i].name, 1, 1) = <<"Unknown Scenario">>
           => /\ returned[i].id = i
              /\ returned[i].name = <<"Unknown Scenario", SP>> \o DigitsOf(returned[i].id)

\* C30: the canonical default set is one list: the three definitions of
\* createDefaultScenarios give the same names, statuses and ids, and the
\* list either parser returns for the empty log is that list.
C30_OneDefaultSet ==
  (testLog = <<>> /\ Returned)
    => /\ NameStatusId(createDefaultScenarios) = NameStatusId(createDefaultScenariosFallback)
       /\ NameStatusId(createDefaultScenarios) = NameStatusId(createDefaultScenariosIntegration)
       /\ NameStatusId(returned) = NameStatusId(createDefaultScenarios)
       /\ NameStatusId(returned) = NameStatusId(createDefaultScenariosIntegration)

====
